---- MODULE Spec2Model ----
(***************************************************************************)
(* The study session of the flashcard application: the FlashcardStudy      *)
(* component (its five useState cells, its keydown effect and its button   *)
(* handlers).  React state is modelled with the values the handlers READ   *)
(* kept apart from the values they WRITE: a handler reads the closure of   *)
(* the render that created it and writes the state cells.                  *)
(* Behind the session stands the store: the decks and cards tables, the    *)
(* query functions that guard them by owner and the server actions that    *)
(* authenticate, validate and then call the query functions.               *)
(***************************************************************************)
EXTENDS Integers, Sequences, FiniteSets, TLC

\* Largest deck handed to a session.
MaxCards == 3
\* Largest deck the shuffle is applied to on its own.
MaxShuffleCards == 4
\* Cap on the two score counters (they are unbounded in the code).
MaxCount == 2
\* Number of deck ids and of card ids the store hands out.
MaxDeckIds == 2
MaxCardIds == 1
\* Number of actions one dialog can have in flight before the model stops
\* accepting submits (the code has no such cap).
MaxInFlight == 2
\* Number of insertCard calls that can be between check and insert at once.
MaxInsertCalls == 2
\* Number of deck ids handed out while the dashboards are watched.
MaxLimitDecks == 4
\* The number of decks at which the dashboard of the free plan stops offering
\* "Create New Deck".
FreeDeckLimit == 3
\* The length limits of createDeckSchema / updateDeckSchema.
MaxNameLength == 100
MaxDescriptionLength == 500

VARIABLES
    cards,          \* the cards prop (never changes after mount)
    studyCards,     \* useState(cards)
    currentIndex,   \* useState(0), 0-based
    isFlipped,      \* useState(false)
    correctCount,   \* useState(0)
    incorrectCount, \* useState(0)
    render,         \* the state values captured by the last render (button handlers' closure)
    keyClosure,     \* the values captured by the last run of the keydown effect
    lastEvent,      \* the event delivered last
    decksTable,     \* the rows of the decks table
    cardsTable,     \* the rows of the cards table
    deckSerial,     \* the last id the decks table handed out
    cardSerial,     \* the last id the cards table handed out
    outcome,        \* the error the last server action threw (or "none"), or the view the last page request got
    dialog,         \* the state cells of the dialog component on screen
    dashboards,     \* what each open dashboard tab rendered last
    insertCalls     \* the insertCard calls between their ownership check and their insert

sessionVars == <<cards, studyCards, currentIndex, isFlipped, correctCount,
                 incorrectCount, render, keyClosure, lastEvent>>
storeVars == <<decksTable, cardsTable, deckSerial, cardSerial, outcome>>
flowVars == <<dialog, dashboards, insertCalls>>
vars == <<sessionVars, storeVars, flowVars>>

-----------------------------------------------------------------------------
\* The store behind the session: the decks and cards tables, the query
\* functions of db/queries and the server actions that call them.  Strings
\* are represented by their length, the only thing the schemas test.

\* The users auth() can return, and its answer when nobody is signed in.
Users == {"user_1", "user_2"}
NoUser == "signed out"

\* An optional input field that is absent / a column that is null.
Undefined == -1
\* An id that is not a number (z.number() and isNaN reject it).
NaN == -2
\* The null a query function returns when no row matched.
Null == [id |-> 0]

\* The database as one value.
DB ==
    [decksTable |-> decksTable, cardsTable |-> cardsTable,
     deckSerial |-> deckSerial, cardSerial |-> cardSerial]

\* .set(data): a column whose value is undefined is left as it is.
SetColumn(old, new) == IF new = Undefined THEN old ELSE new

\* The first row of a result, or null.
FirstOrNull(rows) == IF rows = {} THEN Null ELSE CHOOSE r \in rows : TRUE

\* where id = deckId and userId = userId, on the decks table.
OwnedDeckRows(db, deckId, userId) ==
    { d \in db.decksTable : d.id = deckId /\ d.userId = userId }

\* Variant: the card is matched by id alone.
CardRowsById(db, cardId, deckId) ==
    { c \in db.cardsTable : c.id = cardId }

\* where id = cardId and deckId = deckId, on the cards table.
CardRows(db, cardId, deckId) ==
    { c \in db.cardsTable : c.id = cardId /\ c.deckId = deckId }

\* The cards removed with their deck (foreign key with cascade).
CascadeDeleteCards(cardRows, deckRows) ==
    { c \in cardRows : \A d \in deckRows : c.deckId # d.id }

getUserDecks(db, userId) ==
    { d \in db.decksTable : d.userId = userId }

getDeckById(db, deckId, userId) ==
    FirstOrNull(OwnedDeckRows(db, deckId, userId))

insertDeck(db, data) ==
    LET deck == [id |-> db.deckSerial + 1, userId |-> data.userId,
                 name |-> data.name, description |-> data.description]
    IN  [db |-> [db EXCEPT !.decksTable = @ \cup {deck}, !.deckSerial = @ + 1],
         result |-> deck, queries |-> 1]

updateDeckById(db, deckId, userId, data) ==
    LET rows == OwnedDeckRows(db, deckId, userId)
        updated == { [d EXCEPT !.name = SetColumn(@, data.name),
                               !.description = SetColumn(@, data.description)]
                     : d \in rows }
    IN  [db |-> [db EXCEPT !.decksTable = (@ \ rows) \cup updated],
         result |-> FirstOrNull(updated), queries |-> 1]

\* Variant: the delete matches the deck id alone.
deleteDeckByIdAnyUser(db, deckId, userId) ==
    LET rows == { d \in db.decksTable : d.id = deckId }
    IN  [db |-> [db EXCEPT !.decksTable = @ \ rows,
                           !.cardsTable = CascadeDeleteCards(@, rows)],
         result |-> FirstOrNull(rows), queries |-> 1]

deleteDeckById(db, deckId, userId) ==
    LET rows == OwnedDeckRows(db, deckId, userId)
    IN  [db |-> [db EXCEPT !.decksTable = @ \ rows,
                           !.cardsTable = CascadeDeleteCards(@, rows)],
         result |-> FirstOrNull(rows), queries |-> 1]

getDeckCountForUser(db, userId) ==
    Cardinality({ d \in db.decksTable : d.userId = userId })

\* The rows of the deck, as a set: the query has no ORDER BY.
getDeckCards(db, deckId, userId) ==
    IF OwnedDeckRows(db, deckId, userId) = {}
    THEN {}
    ELSE { c \in db.cardsTable : c.deckId = deckId }

getCardById(db, cardId, deckId, userId) ==
    IF OwnedDeckRows(db, deckId, userId) = {}
    THEN Null
    ELSE FirstOrNull(CardRows(db, cardId, deckId))

insertCard(db, data, userId) ==
    IF OwnedDeckRows(db, data.deckId, userId) = {}
    THEN [db |-> db, result |-> Null, queries |-> 1]
    ELSE LET card == [id |-> db.cardSerial + 1, deckId |-> data.deckId,
                      front |-> data.front, back |-> data.back]
         IN  [db |-> [db EXCEPT !.cardsTable = @ \cup {card}, !.cardSerial = @ + 1],
              result |-> card, queries |-> 2]

updateCardById(db, cardId, deckId, userId, data) ==
    IF OwnedDeckRows(db, deckId, userId) = {}
    THEN [db |-> db, result |-> Null, queries |-> 1]
    ELSE LET rows == CardRows(db, cardId, deckId)
             updated == { [c EXCEPT !.front = SetColumn(@, data.front),
                                    !.back = SetColumn(@, data.back)]
                          : c \in rows }
         IN  [db |-> [db EXCEPT !.cardsTable = (@ \ rows) \cup updated],
              result |-> FirstOrNull(updated), queries |-> 2]

deleteCardById(db, cardId, deckId, userId) ==
    IF OwnedDeckRows(db, deckId, userId) = {}
    THEN [db |-> db, result |-> Null, queries |-> 1]
    ELSE LET rows == CardRows(db, cardId, deckId)
         IN  [db |-> [db EXCEPT !.cardsTable = @ \ rows],
              result |-> FirstOrNull(rows), queries |-> 2]

\* The store before any action: no rows, no id handed out, nothing answered.
EmptyStore ==
    /\ decksTable = {}
    /\ cardsTable = {}
    /\ deckSerial = 0
    /\ cardSerial = 0
    /\ outcome = "idle"

\* No dialog on screen, no dashboard tab open, no insertCard call under way.
NoFlows ==
    /\ dialog = [kind |-> "none"]
    /\ dashboards = << >>
    /\ insertCalls = {}

\* A path handed to revalidatePath; id is 0 for a path without a deck id.
Path(path, id) == [path |-> path, id |-> id]

\* A server action that threw: nothing written, nothing revalidated.
Thrown(db, error, queries) ==
    [db |-> db, error |-> error, result |-> Null, revalidated |-> {},
     queries |-> queries]

\* A server action that returned the row of its query.
Returned(q, paths) ==
    [db |-> q.db, error |-> "none", result |-> q.result, revalidated |-> paths,
     queries |-> q.queries]

\* z.string().min(1).max(100) and z.string().max(500).optional()
NameOk(name) == name >= 1 /\ name <= MaxNameLength
DescriptionOk(description) ==
    description = Undefined \/ (description >= 0 /\ description <= MaxDescriptionLength)
\* z.string().min(1)
TextOk(text) == text >= 1
\* z.number()
NumberOk(id) == id # NaN

\* Variant: the back of a card is not checked.
createCardSchemaFrontOnly(input) ==
    NumberOk(input.deckId) /\ TextOk(input.front)

createDeckSchema(input) == NameOk(input.name) /\ DescriptionOk(input.description)
updateDeckSchema(input) ==
    NumberOk(input.id) /\ NameOk(input.name) /\ DescriptionOk(input.description)
deleteDeckSchema(input) == NumberOk(input.id)
createCardSchema(input) ==
    NumberOk(input.deckId) /\ TextOk(input.front) /\ TextOk(input.back)
updateCardSchema(input) ==
    /\ NumberOk(input.id) /\ NumberOk(input.deckId)
    /\ TextOk(input.front) /\ TextOk(input.back)
deleteCardSchema(input) == NumberOk(input.id) /\ NumberOk(input.deckId)

\* Variant: a userId in the input is taken over the one auth() gave.
createDeckTrustsInput(db, userId, input) ==
    IF userId = NoUser THEN Thrown(db, "Unauthorized", 0)
    ELSE IF ~createDeckSchema(input) THEN Thrown(db, "ZodError", 0)
    ELSE Returned(insertDeck(db, [name |-> input.name,
                                  description |-> input.description,
                                  userId |-> IF "userId" \in DOMAIN input
                                             THEN input.userId ELSE userId]),
                  {Path("/decks", 0), Path("/dashboard", 0)})

\* Variant: the input is parsed before auth() is consulted.
createDeckValidatesFirst(db, userId, input) ==
    IF ~createDeckSchema(input) THEN Thrown(db, "ZodError", 0)
    ELSE IF userId = NoUser THEN Thrown(db, "Unauthorized", 0)
    ELSE Returned(insertDeck(db, [name |-> input.name,
                                  description |-> input.description,
                                  userId |-> userId]),
                  {Path("/decks", 0), Path("/dashboard", 0)})

createDeck(db, userId, input) ==
    IF userId = NoUser THEN Thrown(db, "Unauthorized", 0)
    ELSE IF ~createDeckSchema(input) THEN Thrown(db, "ZodError", 0)
    ELSE Returned(insertDeck(db, [name |-> input.name,
                                  description |-> input.description,
                                  userId |-> userId]),
                  {Path("/decks", 0), Path("/dashboard", 0)})

\* Variant: a deck of another user is reported as forbidden.
updateDeckTellsForbidden(db, userId, input) ==
    IF userId = NoUser THEN Thrown(db, "Unauthorized", 0)
    ELSE IF ~updateDeckSchema(input) THEN Thrown(db, "ZodError", 0)
    ELSE LET q == updateDeckById(db, input.id, userId,
                                 [name |-> input.name,
                                  description |-> input.description])
         IN  IF q.result = Null
             THEN IF \E d \in db.decksTable : d.id = input.id
                  THEN Thrown(q.db, "Forbidden", q.queries)
                  ELSE Thrown(q.db, "Deck not found or unauthorized", q.queries)
             ELSE Returned(q, {Path("/decks", 0), Path("/decks/[id]", input.id),
                               Path("/dashboard", 0)})

updateDeck(db, userId, input) ==
    IF userId = NoUser THEN Thrown(db, "Unauthorized", 0)
    ELSE IF ~updateDeckSchema(input) THEN Thrown(db, "ZodError", 0)
    ELSE LET q == updateDeckById(db, input.id, userId,
                                 [name |-> input.name,
                                  description |-> input.description])
         IN  IF q.result = Null
             THEN Thrown(q.db, "Deck not found or unauthorized", q.queries)
             ELSE Returned(q, {Path("/decks", 0), Path("/decks/[id]", input.id),
                               Path("/dashboard", 0)})

deleteDeck(db, userId, input) ==
    IF userId = NoUser THEN Thrown(db, "Unauthorized", 0)
    ELSE IF ~deleteDeckSchema(input) THEN Thrown(db, "ZodError", 0)
    ELSE LET q == deleteDeckById(db, input.id, userId)
         IN  IF q.result = Null
             THEN Thrown(q.db, "Deck not found or unauthorized", q.queries)
             ELSE Returned(q, {Path("/decks", 0), Path("/dashboard", 0)})

createCard(db, userId, input) ==
    IF userId = NoUser THEN Thrown(db, "Unauthorized", 0)
    ELSE IF ~createCardSchema(input) THEN Thrown(db, "ZodError", 0)
    ELSE LET q == insertCard(db, [deckId |-> input.deckId, front |-> input.front,
                                  back |-> input.back], userId)
         IN  IF q.result = Null
             THEN Thrown(q.db, "Deck not found or unauthorized", q.queries)
             ELSE Returned(q, {Path("/decks/[id]", input.deckId)})

updateCard(db, userId, input) ==
    IF userId = NoUser THEN Thrown(db, "Unauthorized", 0)
    ELSE IF ~updateCardSchema(input) THEN Thrown(db, "ZodError", 0)
    ELSE LET q == updateCardById(db, input.id, input.deckId, userId,
                                 [front |-> input.front, back |-> input.back])
         IN  IF q.result = Null
             THEN Thrown(q.db, "Card not found or unauthorized", q.queries)
             ELSE Returned(q, {Path("/decks/[id]", input.deckId)})

deleteCard(db, userId, input) ==
    IF userId = NoUser THEN Thrown(db, "Unauthorized", 0)
    ELSE IF ~deleteCardSchema(input) THEN Thrown(db, "ZodError", 0)
    ELSE LET q == deleteCardById(db, input.id, input.deckId, userId)
         IN  IF q.result = Null
             THEN Thrown(q.db, "Card not found or unauthorized", q.queries)
             ELSE Returned(q, {Path("/decks/[id]", input.deckId)})

\* The study page of a deck: what it answers and the cards it hands to the
\* session.
StudyPage(db, userId, deckId) ==
    IF userId = NoUser
    THEN [view |-> "redirect /", deck |-> Null, cards |-> {}]
    ELSE IF deckId = NaN
    THEN [view |-> "notFound", deck |-> Null, cards |-> {}]
    ELSE LET deck == getDeckById(db, deckId, userId)
         IN  IF deck = Null
             THEN [view |-> "notFound", deck |-> Null, cards |-> {}]
             ELSE [view |-> "FlashcardStudy", deck |-> deck,
                   cards |-> getDeckCards(db, deckId, userId)]

\* The pages, and the pages that render a deck row (DashboardPage through
\* getUserDecks, DeckPage and StudyPage through getDeckById) or the cards of
\* a deck (DeckPage and StudyPage through getDeckCards).  revalidatePath of a
\* literal path names exactly that page.
DashboardView == Path("/dashboard", 0)
DeckView(id) == Path("/decks/[id]", id)
StudyView(id) == Path("/decks/[id]/study", id)
ViewsOfDeck(id) == {DashboardView, DeckView(id), StudyView(id)}
ViewsOfCards(deckId) == {DeckView(deckId), StudyView(deckId)}

-----------------------------------------------------------------------------
\* Card lists the Deck Store can hand over: n distinct cards, in id order or
\* in another order (getDeckCards has no ORDER BY).
StoreOrders(n) ==
    { [i \in 1..n |-> i], [i \in 1..n |-> (i % n) + 1], [i \in 1..n |-> n + 1 - i] }

\* The five state cells as one value.
State ==
    [studyCards |-> studyCards, currentIndex |-> currentIndex,
     isFlipped |-> isFlipped, correctCount |-> correctCount,
     incorrectCount |-> incorrectCount]

\* Variant: the session starts from the cards sorted by id.
useStateSorted(cs) ==
    [studyCards |-> SortSeq(cs, LAMBDA a, b : a < b), currentIndex |-> 0,
     isFlipped |-> FALSE, correctCount |-> 0, incorrectCount |-> 0]

\* The state after construction with the prop cs.
useState(cs) ==
    [studyCards |-> cs, currentIndex |-> 0, isFlipped |-> FALSE,
     correctCount |-> 0, incorrectCount |-> 0]

\* What the keydown effect captures: its dependency list.
EffectDeps(c) ==
    [currentIndex |-> c.currentIndex, length |-> Len(c.studyCards)]

-----------------------------------------------------------------------------
\* Handlers.  c is the closure the handler reads, s the state it writes.

\* Variant: ArrowLeft tests currentIndex >= 0.
handleKeyDownLeftOffByOne(k, s, code) ==
    IF code = "Space"
    THEN [s EXCEPT !.isFlipped = ~s.isFlipped]
    ELSE IF code = "ArrowLeft"
    THEN IF k.currentIndex >= 0
         THEN [s EXCEPT !.currentIndex = k.currentIndex - 1, !.isFlipped = FALSE]
         ELSE s
    ELSE IF code = "ArrowRight"
    THEN IF k.currentIndex < k.length - 1
         THEN [s EXCEPT !.currentIndex = k.currentIndex + 1, !.isFlipped = FALSE]
         ELSE s
    ELSE s

\* Variant: the back of the last card, once shown, stays shown.
handleFlipLocksAtEnd(c, s) ==
    IF c.currentIndex = Len(c.studyCards) - 1 /\ c.isFlipped
    THEN s
    ELSE [s EXCEPT !.isFlipped = ~c.isFlipped]

\* Variant: setIsFlipped(true).
handleFlipShowsBack(c, s) ==
    [s EXCEPT !.isFlipped = TRUE]

\* Variant: the face is kept when moving back.
handlePreviousKeepsFace(c, s) ==
    IF c.currentIndex > 0
    THEN [s EXCEPT !.currentIndex = c.currentIndex - 1]
    ELSE s

\* Variant: a mark is counted only when there is a next card to move to.
handleCorrectBounded(c, s) ==
    IF c.currentIndex < Len(c.studyCards) - 1
    THEN [s EXCEPT !.correctCount = c.correctCount + 1,
                   !.currentIndex = c.currentIndex + 1, !.isFlipped = FALSE]
    ELSE s

\* Variant: restart forgets setIncorrectCount(0).
handleRestartKeepsIncorrect(c, s) ==
    [s EXCEPT !.currentIndex = 0, !.isFlipped = FALSE, !.correctCount = 0]

\* Variant: restart also puts the cards back in store order.
handleRestartRestoresOrder(c, s) ==
    [s EXCEPT !.studyCards = cards, !.currentIndex = 0, !.isFlipped = FALSE,
              !.correctCount = 0, !.incorrectCount = 0]

\* Variant: ArrowRight tests currentIndex <= length - 1.
handleKeyDownOffByOne(k, s, code) ==
    IF code = "Space"
    THEN [s EXCEPT !.isFlipped = ~s.isFlipped]
    ELSE IF code = "ArrowLeft"
    THEN IF k.currentIndex > 0
         THEN [s EXCEPT !.currentIndex = k.currentIndex - 1, !.isFlipped = FALSE]
         ELSE s
    ELSE IF code = "ArrowRight"
    THEN IF k.currentIndex <= k.length - 1
         THEN [s EXCEPT !.currentIndex = k.currentIndex + 1, !.isFlipped = FALSE]
         ELSE s
    ELSE s

\* Variant: the arrow keys call setIsFlipped(false) outside the bounds test.
handleKeyDownResetsFace(k, s, code) ==
    IF code = "Space"
    THEN [s EXCEPT !.isFlipped = ~s.isFlipped]
    ELSE IF code = "ArrowLeft"
    THEN IF k.currentIndex > 0
         THEN [s EXCEPT !.currentIndex = k.currentIndex - 1, !.isFlipped = FALSE]
         ELSE [s EXCEPT !.isFlipped = FALSE]
    ELSE IF code = "ArrowRight"
    THEN IF k.currentIndex < k.length - 1
         THEN [s EXCEPT !.currentIndex = k.currentIndex + 1, !.isFlipped = FALSE]
         ELSE [s EXCEPT !.isFlipped = FALSE]
    ELSE s

handleNext(c, s) ==
    IF c.currentIndex < Len(c.studyCards) - 1
    THEN [s EXCEPT !.currentIndex = c.currentIndex + 1, !.isFlipped = FALSE]
    ELSE s

\* Variant: moving back takes the last correct mark away.
handlePreviousUndoesMark(c, s) ==
    IF c.currentIndex > 0
    THEN [s EXCEPT !.currentIndex = c.currentIndex - 1, !.isFlipped = FALSE,
                   !.correctCount = IF c.correctCount > 0 THEN c.correctCount - 1 ELSE 0]
    ELSE s

handlePrevious(c, s) ==
    IF c.currentIndex > 0
    THEN [s EXCEPT !.currentIndex = c.currentIndex - 1, !.isFlipped = FALSE]
    ELSE s

handleFlip(c, s) ==
    [s EXCEPT !.isFlipped = ~c.isFlipped]

handleRestart(c, s) ==
    [s EXCEPT !.currentIndex = 0, !.isFlipped = FALSE,
              !.correctCount = 0, !.incorrectCount = 0]

\* Variant: Math.floor(Math.random() * i), which never leaves an element in place.
RandomIndexExclusive(i) == 0..(i - 1)

\* The values Math.floor(Math.random() * (i + 1)) can take.
RandomIndex(i) == 0..i

\* One value of j for each iteration i = n-1 .. 1 of the shuffle loop.
ChoiceSeqs(n) ==
    { js \in [1..(n - 1) -> 0..(n - 1)] : \A i \in 1..(n - 1) : js[i] \in RandomIndex(i) }

\* Variant: shuffled[i] = shuffled[j] without the assignment back.
SwapOverwrite(a, i, j) ==
    [a EXCEPT ![i + 1] = a[j + 1]]

\* [shuffled[i], shuffled[j]] = [shuffled[j], shuffled[i]]  (0-based i, j)
Swap(a, i, j) ==
    [a EXCEPT ![i + 1] = a[j + 1], ![j + 1] = a[i + 1]]

RECURSIVE ShuffleLoop(_, _, _)
\* for (let i = ...; i > 0; i--) { j = js[i]; swap(i, j) }
ShuffleLoop(a, i, js) ==
    IF i > 0 THEN ShuffleLoop(Swap(a, i, js[i]), i - 1, js) ELSE a

FisherYates(arr, js) ==
    ShuffleLoop(arr, Len(arr) - 1, js)

\* Variant: shuffle forgets setCurrentIndex(0).
handleShuffleKeepsCursor(c, s, js) ==
    [s EXCEPT !.studyCards = FisherYates(c.studyCards, js), !.isFlipped = FALSE,
              !.correctCount = 0, !.incorrectCount = 0]

handleShuffle(c, s, js) ==
    [s EXCEPT !.studyCards = FisherYates(c.studyCards, js),
              !.currentIndex = 0, !.isFlipped = FALSE,
              !.correctCount = 0, !.incorrectCount = 0]

\* Variant: a correct mark is counted but the session stays on the card.
handleCorrectStays(c, s) ==
    [s EXCEPT !.correctCount = c.correctCount + 1]

handleCorrect(c, s) ==
    handleNext(c, [s EXCEPT !.correctCount = c.correctCount + 1])

handleIncorrect(c, s) ==
    handleNext(c, [s EXCEPT !.incorrectCount = c.incorrectCount + 1])

\* The window keydown listener; k is what the effect captured.
handleKeyDown(k, s, code) ==
    IF code = "Space"
    THEN [s EXCEPT !.isFlipped = ~s.isFlipped]
    ELSE IF code = "ArrowLeft"
    THEN IF k.currentIndex > 0
         THEN [s EXCEPT !.currentIndex = k.currentIndex - 1, !.isFlipped = FALSE]
         ELSE s
    ELSE IF code = "ArrowRight"
    THEN IF k.currentIndex < k.length - 1
         THEN [s EXCEPT !.currentIndex = k.currentIndex + 1, !.isFlipped = FALSE]
         ELSE s
    ELSE s

-----------------------------------------------------------------------------
\* What the last render put on the screen.

\* Variant: the Correct / Incorrect buttons are rendered on both faces.
ScoreButtonsAlwaysShown(c) == TRUE

EmptyView == Len(cards) = 0
PreviousDisabled(c) == c.currentIndex = 0
\* Variant: Next / Skip is disabled only once the last card shows its back.
NextDisabledOnComplete(c) ==
    c.currentIndex = Len(c.studyCards) - 1 /\ c.isFlipped
NextDisabled(c) == c.currentIndex = Len(c.studyCards) - 1
ScoreButtonsShown(c) == c.isFlipped
FlipButtonShown(c) == ~c.isFlipped
SummaryShown(c) == c.currentIndex = Len(c.studyCards) - 1 /\ c.isFlipped
\* Whether the render reads studyCards[currentIndex] (it returns before that
\* for an empty deck).
RendersCurrentCard == ~EmptyView

-----------------------------------------------------------------------------
\* Delivery of one event: the handler's writes, then (flush) React's re-render
\* and effect run, which happen before the browser delivers the next user event.

Commit(s) ==
    /\ studyCards' = s.studyCards
    /\ currentIndex' = s.currentIndex
    /\ isFlipped' = s.isFlipped
    /\ correctCount' = s.correctCount
    /\ incorrectCount' = s.incorrectCount

Deliver(e, s, flush) ==
    /\ Commit(s)
    /\ lastEvent' = e
    /\ IF flush
       THEN render' = s /\ keyClosure' = EffectDeps(s)
       ELSE UNCHANGED <<render, keyClosure>>
    /\ UNCHANGED cards
    /\ UNCHANGED storeVars
    /\ UNCHANGED flowVars

ClickNext(flush) ==
    /\ ~EmptyView /\ ~NextDisabled(render)
    /\ Deliver("next", handleNext(render, State), flush)

ClickPrevious(flush) ==
    /\ ~EmptyView /\ ~PreviousDisabled(render)
    /\ Deliver("previous", handlePrevious(render, State), flush)

ClickCard(flush) ==
    /\ ~EmptyView
    /\ Deliver("flip", handleFlip(render, State), flush)

ClickFlipButton(flush) ==
    /\ ~EmptyView /\ FlipButtonShown(render)
    /\ Deliver("flip", handleFlip(render, State), flush)

ClickCorrect(flush) ==
    /\ ~EmptyView /\ ScoreButtonsShown(render)
    /\ render.correctCount < MaxCount
    /\ Deliver("markCorrect", handleCorrect(render, State), flush)

ClickIncorrect(flush) ==
    /\ ~EmptyView /\ ScoreButtonsShown(render)
    /\ render.incorrectCount < MaxCount
    /\ Deliver("markIncorrect", handleIncorrect(render, State), flush)

ClickShuffle(flush) ==
    /\ ~EmptyView
    /\ \E js \in ChoiceSeqs(Len(render.studyCards)) :
           Deliver("shuffle", handleShuffle(render, State, js), flush)

ClickRestart(flush) ==
    /\ ~EmptyView
    /\ Deliver("restart", handleRestart(render, State), flush)

ClickStudyAgain(flush) ==
    /\ ~EmptyView /\ SummaryShown(render)
    /\ Deliver("restart", handleRestart(render, State), flush)

KeySpace(flush) ==
    Deliver("Space", handleKeyDown(keyClosure, State, "Space"), flush)

KeyArrowLeft(flush) ==
    Deliver("ArrowLeft", handleKeyDown(keyClosure, State, "ArrowLeft"), flush)

KeyArrowRight(flush) ==
    Deliver("ArrowRight", handleKeyDown(keyClosure, State, "ArrowRight"), flush)

-----------------------------------------------------------------------------
Mount(maxCards) ==
    /\ cards \in UNION { StoreOrders(n) : n \in 0..maxCards }
    /\ studyCards = useState(cards).studyCards
    /\ currentIndex = useState(cards).currentIndex
    /\ isFlipped = useState(cards).isFlipped
    /\ correctCount = useState(cards).correctCount
    /\ incorrectCount = useState(cards).incorrectCount
    /\ render = useState(cards)
    /\ keyClosure = EffectDeps(useState(cards))
    /\ lastEvent = "mount"
    /\ EmptyStore
    /\ NoFlows

Init == Mount(MaxCards)

\* User events, each followed by the re-render it schedules.
Next ==
    \/ ClickNext(TRUE)
    \/ ClickPrevious(TRUE)
    \/ ClickCard(TRUE)
    \/ ClickFlipButton(TRUE)
    \/ ClickCorrect(TRUE)
    \/ ClickIncorrect(TRUE)
    \/ ClickShuffle(TRUE)
    \/ ClickRestart(TRUE)
    \/ ClickStudyAgain(TRUE)
    \/ KeySpace(TRUE)
    \/ KeyArrowLeft(TRUE)
    \/ KeyArrowRight(TRUE)

Spec == Init /\ [][Next]_vars

-----------------------------------------------------------------------------
\* The shuffle on its own: sessions in which only the Shuffle button is used.
InitShuffle == Mount(MaxShuffleCards)

NextShuffle == ClickShuffle(TRUE)

SpecShuffle == InitShuffle /\ [][NextShuffle]_vars

-----------------------------------------------------------------------------
\* The same handlers when events can be delivered back to back (dispatched in
\* one task, before React's scheduled re-render has run): the re-render and the
\* effect are steps of their own.

\* React re-renders: the component function runs again and its handlers close
\* over the current state.
Render ==
    /\ render # State
    /\ render' = State
    /\ UNCHANGED storeVars
    /\ UNCHANGED flowVars
    /\ UNCHANGED <<cards, studyCards, currentIndex, isFlipped, correctCount,
                   incorrectCount, keyClosure, lastEvent>>

\* The keydown effect runs again after a render whose dependencies changed.
RunEffect ==
    /\ keyClosure # EffectDeps(render)
    /\ keyClosure' = EffectDeps(render)
    /\ UNCHANGED storeVars
    /\ UNCHANGED flowVars
    /\ UNCHANGED <<cards, studyCards, currentIndex, isFlipped, correctCount,
                   incorrectCount, render, lastEvent>>

NextStale ==
    \/ ClickNext(FALSE)
    \/ ClickPrevious(FALSE)
    \/ ClickCard(FALSE)
    \/ ClickFlipButton(FALSE)
    \/ ClickCorrect(FALSE)
    \/ ClickIncorrect(FALSE)
    \/ ClickShuffle(FALSE)
    \/ ClickRestart(FALSE)
    \/ ClickStudyAgain(FALSE)
    \/ KeySpace(FALSE)
    \/ KeyArrowLeft(FALSE)
    \/ KeyArrowRight(FALSE)
    \/ Render
    \/ RunEffect

SpecStale == Init /\ [][NextStale]_vars

-----------------------------------------------------------------------------
\* The store driven through the server actions and the study page.

\* The inputs the callers send: every user and nobody, a valid and an invalid
\* value of each field, every id handed out and two that are not.
Sessions == Users \cup {NoUser}
NameInputs == {0, MaxNameLength, MaxNameLength + 1}
DescriptionInputs == {Undefined, MaxDescriptionLength + 1}
TextInputs == {0, 1}
DeckIdInputs == {NaN} \cup (0..MaxDeckIds)
CardIdInputs == {NaN} \cup (0..MaxCardIds)

CreateDeckInputs == [name : NameInputs, description : DescriptionInputs]
UpdateDeckInputs == [id : DeckIdInputs, name : NameInputs, description : DescriptionInputs]
DeleteDeckInputs == [id : DeckIdInputs]
CreateCardInputs == [deckId : DeckIdInputs, front : TextInputs, back : TextInputs]
UpdateCardInputs == [id : CardIdInputs, deckId : DeckIdInputs, front : TextInputs, back : TextInputs]
DeleteCardInputs == [id : CardIdInputs, deckId : DeckIdInputs]

\* One call of a server action: the store takes the database the action left
\* and the caller gets its answer.
Perform(r) ==
    /\ r.db.deckSerial <= MaxDeckIds
    /\ r.db.cardSerial <= MaxCardIds
    /\ decksTable' = r.db.decksTable
    /\ cardsTable' = r.db.cardsTable
    /\ deckSerial' = r.db.deckSerial
    /\ cardSerial' = r.db.cardSerial
    /\ outcome' = r.error
    /\ UNCHANGED sessionVars
    /\ UNCHANGED flowVars

CallCreateDeck ==
    \E u \in Sessions, input \in CreateDeckInputs :
        Perform(createDeck(DB, u, input))

CallUpdateDeck ==
    \E u \in Sessions, input \in UpdateDeckInputs :
        Perform(updateDeck(DB, u, input))

CallDeleteDeck ==
    \E u \in Sessions, input \in DeleteDeckInputs :
        Perform(deleteDeck(DB, u, input))

CallCreateCard ==
    \E u \in Sessions, input \in CreateCardInputs :
        Perform(createCard(DB, u, input))

CallUpdateCard ==
    \E u \in Sessions, input \in UpdateCardInputs :
        Perform(updateCard(DB, u, input))

CallDeleteCard ==
    \E u \in Sessions, input \in DeleteCardInputs :
        Perform(deleteCard(DB, u, input))

\* A request for /decks/[deckId]/study: reads only.
VisitStudyPage ==
    \E u \in Sessions, deckId \in DeckIdInputs :
        /\ outcome' = StudyPage(DB, u, deckId).view
        /\ UNCHANGED <<decksTable, cardsTable, deckSerial, cardSerial>>
        /\ UNCHANGED sessionVars
        /\ UNCHANGED flowVars

InitStore ==
    /\ cards = << >>
    /\ studyCards = useState(cards).studyCards
    /\ currentIndex = useState(cards).currentIndex
    /\ isFlipped = useState(cards).isFlipped
    /\ correctCount = useState(cards).correctCount
    /\ incorrectCount = useState(cards).incorrectCount
    /\ render = useState(cards)
    /\ keyClosure = EffectDeps(useState(cards))
    /\ lastEvent = "mount"
    /\ EmptyStore
    /\ NoFlows

NextStore ==
    \/ CallCreateDeck
    \/ CallUpdateDeck
    \/ CallDeleteDeck
    \/ CallCreateCard
    \/ CallUpdateCard
    \/ CallDeleteCard
    \/ VisitStudyPage

SpecStore == InitStore /\ [][NextStore]_vars

-----------------------------------------------------------------------------
\* The dashboard and its deck limit.

\* The users for whom has({ feature: 'unlimited_decks' }) is true.
ProUsers == {"user_2"}
hasUnlimitedDecks(userId) == userId \in ProUsers

\* What DashboardPage renders for a signed-in user.
DashboardPage(db, userId) ==
    LET deckCount == Cardinality(getUserDecks(db, userId))
        isAtLimit == ~hasUnlimitedDecks(userId) /\ deckCount >= FreeDeckLimit
    IN  [deckCount |-> deckCount, isAtLimit |-> isAtLimit,
         createDeckButton |-> ~isAtLimit]

\* The open dashboard tabs and who is signed in in each.
DashboardTabs == <<"user_1", "user_1", "user_2">>

\* A tab loads or reloads /dashboard.
LoadDashboard ==
    \E tab \in DOMAIN DashboardTabs :
        /\ dashboards' = [dashboards EXCEPT ![tab] = DashboardPage(DB, DashboardTabs[tab])]
        /\ outcome' = "Dashboard"
        /\ UNCHANGED <<decksTable, cardsTable, deckSerial, cardSerial>>
        /\ UNCHANGED <<dialog, insertCalls>>
        /\ UNCHANGED sessionVars

\* The Create New Deck dialog of a tab is submitted: createDeck runs, and as
\* it revalidated /dashboard the tab that called it renders again.
SubmitCreateDeck ==
    \E tab \in DOMAIN DashboardTabs, name \in NameInputs :
        LET r == createDeck(DB, DashboardTabs[tab],
                            [name |-> name, description |-> Undefined])
        IN  /\ dashboards[tab].createDeckButton
            /\ r.db.deckSerial <= MaxLimitDecks
            /\ decksTable' = r.db.decksTable
            /\ cardsTable' = r.db.cardsTable
            /\ deckSerial' = r.db.deckSerial
            /\ cardSerial' = r.db.cardSerial
            /\ outcome' = r.error
            /\ dashboards' =
                  IF DashboardView \in r.revalidated
                  THEN [dashboards EXCEPT ![tab] = DashboardPage(r.db, DashboardTabs[tab])]
                  ELSE dashboards
            /\ UNCHANGED <<dialog, insertCalls>>
            /\ UNCHANGED sessionVars

InitLimit ==
    /\ cards = << >>
    /\ studyCards = useState(cards).studyCards
    /\ currentIndex = useState(cards).currentIndex
    /\ isFlipped = useState(cards).isFlipped
    /\ correctCount = useState(cards).correctCount
    /\ incorrectCount = useState(cards).incorrectCount
    /\ render = useState(cards)
    /\ keyClosure = EffectDeps(useState(cards))
    /\ lastEvent = "mount"
    /\ EmptyStore
    /\ dialog = [kind |-> "none"]
    /\ insertCalls = {}
    /\ dashboards = [tab \in DOMAIN DashboardTabs |->
                        DashboardPage(DB, DashboardTabs[tab])]

NextLimit ==
    \/ LoadDashboard
    \/ SubmitCreateDeck

SpecLimit == InitLimit /\ [][NextLimit]_vars

-----------------------------------------------------------------------------
\* insertCard as the two statements it is, with other calls in between.

\* Variant: cards.deckId is a plain column.
ReferencesDeckUnchecked(db, deckId) == TRUE

\* cards.deckId references decks.id (the reference that cascades on delete):
\* the database refuses a card whose deck row is not there.
ReferencesDeck(db, deckId) == \E d \in db.decksTable : d.id = deckId

\* The first statement of insertCard: the ownership select found a row.
insertCardCheck(db, data, userId) ==
    OwnedDeckRows(db, data.deckId, userId) # {}

\* The second statement of insertCard: insert(cardsTable).values(data).
insertCardInsert(db, data) ==
    IF ReferencesDeck(db, data.deckId)
    THEN LET card == [id |-> db.cardSerial + 1, deckId |-> data.deckId,
                      front |-> data.front, back |-> data.back]
         IN  [db |-> [db EXCEPT !.cardsTable = @ \cup {card}, !.cardSerial = @ + 1],
              result |-> card, error |-> "none"]
    ELSE [db |-> db, result |-> Null, error |-> "foreign key violation"]

\* createCard of a signed-in user with valid input, up to the ownership
\* select of insertCard.
BeginInsertCard ==
    \E u \in Users, d \in 1..MaxDeckIds :
        LET data == [deckId |-> d, front |-> 1, back |-> 1]
        IN  /\ Cardinality(insertCalls) < MaxInsertCalls
            /\ IF insertCardCheck(DB, data, u)
               THEN /\ insertCalls' = insertCalls \cup {[userId |-> u, data |-> data]}
                    /\ outcome' = "pending"
               ELSE /\ insertCalls' = insertCalls
                    /\ outcome' = "Deck not found or unauthorized"
            /\ UNCHANGED <<decksTable, cardsTable, deckSerial, cardSerial>>
            /\ UNCHANGED <<dialog, dashboards>>
            /\ UNCHANGED sessionVars

\* The insert of a call that passed its check.
FinishInsertCard ==
    \E call \in insertCalls :
        LET r == insertCardInsert(DB, call.data)
        IN  /\ r.db.cardSerial <= MaxCardIds
            /\ decksTable' = r.db.decksTable
            /\ cardsTable' = r.db.cardsTable
            /\ deckSerial' = r.db.deckSerial
            /\ cardSerial' = r.db.cardSerial
            /\ outcome' = r.error
            /\ insertCalls' = insertCalls \ {call}
            /\ UNCHANGED <<dialog, dashboards>>
            /\ UNCHANGED sessionVars

NextInterleave ==
    \/ CallCreateDeck
    \/ CallDeleteDeck
    \/ BeginInsertCard
    \/ FinishInsertCard

SpecInterleave == InitStore /\ [][NextInterleave]_vars

-----------------------------------------------------------------------------
\* The dialogs: CreateDeckButton, AddCardButton, the edit and delete dialogs
\* of EditableCard, EditDeckButton and DeleteDeckButton.  A dialog is one
\* record: open, the two text fields a and b (name / description or front /
\* back, by length), isPending of useTransition, the inputs of the actions
\* still in flight, the error shown and the event handled last.

DialogKinds ==
    {"CreateDeckButton", "AddCardButton", "EditCard", "DeleteCard",
     "EditDeckButton", "DeleteDeckButton"}
FormKinds == {"CreateDeckButton", "AddCardButton", "EditCard", "EditDeckButton"}

\* The user of the tab, and the deck and card the deck page rendered the
\* dialogs for.
DialogUser == "user_1"
PropDeck == [id |-> 1, userId |-> DialogUser, name |-> MaxNameLength,
             description |-> Undefined]
PropCard == [id |-> 1, deckId |-> 1, front |-> 1, back |-> 1]

\* What the user can have in a field: nothing, something, too much.
FieldInputs == {0, 1, MaxNameLength + 1}

\* currentDescription || "" and description || undefined
OrEmpty(text) == IF text = Undefined THEN 0 ELSE text
OrUndefined(text) == IF text = 0 THEN Undefined ELSE text

\* The useState initial values of a dialog.
DialogMount(kind) ==
    [kind |-> kind, mounted |-> TRUE, open |-> FALSE,
     a |-> IF kind = "EditCard" THEN PropCard.front
           ELSE IF kind = "EditDeckButton" THEN PropDeck.name ELSE 0,
     b |-> IF kind = "EditCard" THEN PropCard.back
           ELSE IF kind = "EditDeckButton" THEN OrEmpty(PropDeck.description) ELSE 0,
     isPending |-> FALSE, sent |-> << >>, error |-> "", last |-> "mount"]

\* The store the page of the dialog was rendered from.
DialogStore(kind) ==
    [decksTable |-> IF kind = "CreateDeckButton" THEN {} ELSE {PropDeck},
     cardsTable |-> IF kind \in {"EditCard", "DeleteCard"} THEN {PropCard} ELSE {},
     deckSerial |-> IF kind = "CreateDeckButton" THEN 0 ELSE 1,
     cardSerial |-> IF kind \in {"EditCard", "DeleteCard"} THEN 1 ELSE 0]

\* Variant: the submit / confirm button stays enabled.
SubmitDisabledNever(d) == FALSE

\* disabled={isPending} (EditDeckButton: isPending || !name.trim()).
SubmitDisabled(d) ==
    d.isPending \/ (d.kind = "EditDeckButton" /\ d.a = 0)

\* The required attribute of the inputs: the browser does not submit the
\* form while one of them is empty.
RequiredFilled(d) ==
    CASE d.kind \in {"CreateDeckButton", "EditDeckButton"} -> d.a # 0
      [] d.kind \in {"AddCardButton", "EditCard"} -> d.a # 0 /\ d.b # 0
      [] OTHER -> TRUE

\* disabled={isPending} on the inputs of the two deck dialogs.
FieldsDisabled(d) ==
    d.kind \in {"CreateDeckButton", "EditDeckButton"} /\ d.isPending

\* The server action a dialog calls, with the values its handler captured.
DialogAction(kind, db, userId, input) ==
    CASE kind = "CreateDeckButton" ->
            createDeck(db, userId, [name |-> input.a, description |-> input.b])
      [] kind = "EditDeckButton" ->
            updateDeck(db, userId, [id |-> PropDeck.id, name |-> input.a,
                                    description |-> OrUndefined(input.b)])
      [] kind = "DeleteDeckButton" ->
            deleteDeck(db, userId, [id |-> PropDeck.id])
      [] kind = "AddCardButton" ->
            createCard(db, userId, [deckId |-> PropDeck.id, front |-> input.a,
                                    back |-> input.b])
      [] kind = "EditCard" ->
            updateCard(db, userId, [id |-> PropCard.id, deckId |-> PropCard.deckId,
                                    front |-> input.a, back |-> input.b])
      [] OTHER ->
            deleteCard(db, userId, [id |-> PropCard.id, deckId |-> PropCard.deckId])

\* Variant: a failed action closes the dialog and empties the form.
OnRejectedResets(d, message) ==
    [d EXCEPT !.open = FALSE, !.a = 0, !.b = 0]

\* The catch branch: CreateDeckButton shows the message, the others alert or
\* log; no state cell but error is written.
OnRejected(d, message) ==
    IF d.kind = "CreateDeckButton" THEN [d EXCEPT !.error = message] ELSE d

\* The statements after the await: the two create dialogs empty their fields,
\* every dialog closes; after a delete the page or card it sat on is gone.
OnResolved(d) ==
    LET closed == [d EXCEPT !.open = FALSE]
    IN  IF d.kind \in {"CreateDeckButton", "AddCardButton"}
        THEN [closed EXCEPT !.a = 0, !.b = 0]
        ELSE IF d.kind \in {"DeleteDeckButton", "DeleteCard"}
        THEN [closed EXCEPT !.mounted = FALSE]
        ELSE closed

\* A dialog event: only the dialog changes.
DialogEvent(d) ==
    /\ dialog' = d
    /\ UNCHANGED storeVars
    /\ UNCHANGED <<dashboards, insertCalls>>
    /\ UNCHANGED sessionVars

\* The trigger button: onOpenChange(true).  EditDeckButton resets its fields
\* to the current props.
OpenDialog ==
    /\ dialog.mounted /\ ~dialog.open
    /\ DialogEvent(IF dialog.kind = "EditDeckButton"
                   THEN [dialog EXCEPT !.open = TRUE, !.a = PropDeck.name,
                                       !.b = OrEmpty(PropDeck.description),
                                       !.last = "open"]
                   ELSE [dialog EXCEPT !.open = TRUE, !.last = "open"])

\* The Cancel button, disabled while pending.
CancelDialog ==
    /\ dialog.mounted /\ dialog.open /\ ~dialog.isPending
    /\ DialogEvent([dialog EXCEPT !.open = FALSE, !.last = "cancel"])

\* Escape or a click outside: onOpenChange(false).
DismissDialog ==
    /\ dialog.mounted /\ dialog.open
    /\ DialogEvent([dialog EXCEPT !.open = FALSE, !.last = "dismiss"])

\* The user edits a field.
TypeField ==
    /\ dialog.mounted /\ dialog.open
    /\ dialog.kind \in FormKinds
    /\ ~FieldsDisabled(dialog)
    /\ \E text \in FieldInputs :
          \/ DialogEvent([dialog EXCEPT !.a = text, !.last = "type"])
          \/ /\ text <= 1
             /\ DialogEvent([dialog EXCEPT !.b = text, !.last = "type"])

\* handleSubmit / handleDelete: startTransition sets isPending and calls the
\* action with the values of this render.
SubmitDialog ==
    /\ dialog.mounted /\ dialog.open
    /\ ~SubmitDisabled(dialog)
    /\ RequiredFilled(dialog)
    /\ Len(dialog.sent) < MaxInFlight
    /\ DialogEvent([dialog EXCEPT
                       !.isPending = TRUE,
                       !.sent = Append(@, [a |-> dialog.a, b |-> dialog.b]),
                       !.error = IF dialog.kind = "CreateDeckButton" THEN "" ELSE @,
                       !.last = "submit"])

\* The action of the oldest call runs on the server, signed in or not any
\* more, and its promise settles.
SettleDialog ==
    /\ dialog.sent # << >>
    /\ \E u \in {DialogUser, NoUser} :
          LET r == DialogAction(dialog.kind, DB, u, Head(dialog.sent))
              rest == [dialog EXCEPT !.sent = Tail(@),
                                     !.isPending = Tail(dialog.sent) # << >>]
          IN  /\ r.db.deckSerial <= MaxDeckIds
              /\ r.db.cardSerial <= MaxCardIds
              /\ decksTable' = r.db.decksTable
              /\ cardsTable' = r.db.cardsTable
              /\ deckSerial' = r.db.deckSerial
              /\ cardSerial' = r.db.cardSerial
              /\ outcome' = r.error
              /\ dialog' = IF r.error = "none"
                           THEN [OnResolved(rest) EXCEPT !.last = "resolved"]
                           ELSE [OnRejected(rest, r.error) EXCEPT !.last = "rejected"]
              /\ UNCHANGED <<dashboards, insertCalls>>
              /\ UNCHANGED sessionVars

\* The deck is deleted from another tab.
DeleteDeckElsewhere ==
    /\ decksTable # {}
    /\ Perform(deleteDeck(DB, DialogUser, [id |-> PropDeck.id]))

InitDialog ==
    /\ cards = << >>
    /\ studyCards = useState(cards).studyCards
    /\ currentIndex = useState(cards).currentIndex
    /\ isFlipped = useState(cards).isFlipped
    /\ correctCount = useState(cards).correctCount
    /\ incorrectCount = useState(cards).incorrectCount
    /\ render = useState(cards)
    /\ keyClosure = EffectDeps(useState(cards))
    /\ lastEvent = "mount"
    /\ \E kind \in DialogKinds :
          /\ dialog = DialogMount(kind)
          /\ decksTable = DialogStore(kind).decksTable
          /\ cardsTable = DialogStore(kind).cardsTable
          /\ deckSerial = DialogStore(kind).deckSerial
          /\ cardSerial = DialogStore(kind).cardSerial
    /\ outcome = "idle"
    /\ dashboards = << >>
    /\ insertCalls = {}

NextDialog ==
    \/ OpenDialog
    \/ CancelDialog
    \/ DismissDialog
    \/ TypeField
    \/ SubmitDialog
    \/ SettleDialog
    \/ DeleteDeckElsewhere

SpecDialog == InitDialog /\ [][NextDialog]_vars

-----------------------------------------------------------------------------
\* Vocabulary of the properties below.

Range(seq) == { seq[i] : i \in DOMAIN seq }

Occurrences(seq, x) == Cardinality({ i \in DOMAIN seq : seq[i] = x })

\* Same length and same multiset of elements.
SameMultiset(a, b) ==
    /\ Len(a) = Len(b)
    /\ \A x \in Range(a) \cup Range(b) : Occurrences(a, x) = Occurrences(b, x)

NoDuplicates(seq) ==
    \A i, j \in DOMAIN seq : seq[i] = seq[j] => i = j

\* All orderings of the elements of seq (its elements are distinct).
Orderings(seq) ==
    { p \in [DOMAIN seq -> Range(seq)] : \A i, j \in DOMAIN seq : p[i] = p[j] => i = j }

RECURSIVE Factorial(_)
Factorial(n) == IF n <= 1 THEN 1 ELSE n * Factorial(n - 1)

AtLastCard == currentIndex = Len(studyCards) - 1

ScoreEvents == {"markCorrect", "markIncorrect"}
ResetEvents == {"shuffle", "restart"}

-----------------------------------------------------------------------------
\* C1: after any sequence of session operations the working order studyCards
\* is a permutation of the card list passed at construction: same length,
\* same multiset, no duplicate and no omission.
PermutationInvariant ==
    /\ SameMultiset(studyCards, cards)
    /\ NoDuplicates(studyCards)
    /\ Range(studyCards) = Range(cards)

\* C1 witness: a full deck, reordered by a shuffle and then studied further.
PermutationWitness ==
    /\ Len(cards) = MaxCards
    /\ studyCards # cards
    /\ currentIndex > 0
    /\ correctCount > 0
    /\ lastEvent = "previous"

\* C2: in a session built from a non-empty card list 0 <= currentIndex <
\* studyCards.length after every operation, so the card the render reads,
\* studyCards[currentIndex], is always defined.
CursorInBounds ==
    Len(cards) > 0 =>
        /\ 0 <= currentIndex /\ currentIndex < Len(studyCards)
        /\ (render.currentIndex + 1) \in DOMAIN render.studyCards

\* C2 witness: ArrowRight delivered with the back of the last card showing,
\* which only happens when the key arrived on the last card.
CursorInBoundsWitness ==
    /\ Len(cards) = MaxCards
    /\ lastEvent = "ArrowRight"
    /\ AtLastCard
    /\ isFlipped

\* C3: a mark adds exactly 1 to its own count in every state and then behaves
\* as next(): on the last card the count still grows while cursor and face
\* stay as they were.
MarkCountsThenNext ==
    [][ /\ lastEvent' = "markCorrect" =>
              /\ correctCount' = correctCount + 1
              /\ incorrectCount' = incorrectCount
        /\ lastEvent' = "markIncorrect" =>
              /\ incorrectCount' = incorrectCount + 1
              /\ correctCount' = correctCount
        /\ lastEvent' \in ScoreEvents =>
              /\ studyCards' = studyCards
              /\ IF AtLastCard
                 THEN currentIndex' = currentIndex /\ isFlipped' = isFlipped
                 ELSE currentIndex' = currentIndex + 1 /\ isFlipped' = FALSE
      ]_vars

\* C3 witness: a mark on the last card of a deck of several cards (the back is
\* still showing after it) that brought the count to 2.
MarkOnLastCardWitness ==
    /\ Len(studyCards) >= 2
    /\ lastEvent = "markCorrect"
    /\ AtLastCard
    /\ isFlipped
    /\ correctCount = 2
    /\ incorrectCount = 0

\* C4: the front is showing right after every transition that changes the
\* cursor and after every shuffle and restart.
FlipResetOnMove ==
    [][ (currentIndex' # currentIndex \/ lastEvent' \in ResetEvents)
            => isFlipped' = FALSE ]_vars

\* C4 witness: a mark moved the cursor; marks are only offered while the back
\* is showing, so the face was reset by the move.
FlipResetWitness ==
    /\ lastEvent = "markIncorrect"
    /\ currentIndex > 0
    /\ ~AtLastCard
    /\ ~isFlipped

\* C5: on the last card next() leaves cursor and face unchanged, and on the
\* first card previous() leaves the whole state unchanged, for the button
\* handlers and for the ArrowRight / ArrowLeft key handlers.
EdgeNoOps ==
    /\ (Len(studyCards) > 0 /\ AtLastCard) =>
          /\ handleNext(render, State).currentIndex = currentIndex
          /\ handleNext(render, State).isFlipped = isFlipped
          /\ handleKeyDown(keyClosure, State, "ArrowRight").currentIndex = currentIndex
          /\ handleKeyDown(keyClosure, State, "ArrowRight").isFlipped = isFlipped
    /\ currentIndex = 0 =>
          /\ handlePrevious(render, State) = State
          /\ handleKeyDown(keyClosure, State, "ArrowLeft") = State

\* C5 witness: ArrowLeft delivered with the back of the first card showing;
\* had it moved the cursor the front would be showing.
EdgeNoOpsWitness ==
    /\ Len(studyCards) >= 2
    /\ lastEvent = "ArrowLeft"
    /\ currentIndex = 0
    /\ isFlipped

\* C6: both counts are never negative and never decrease, except on restart
\* and shuffle, which set both to 0.
ScoreMonotonic ==
    /\ [](correctCount >= 0 /\ incorrectCount >= 0)
    /\ [][ /\ (correctCount' < correctCount \/ incorrectCount' < incorrectCount)
                => lastEvent' \in ResetEvents
           /\ lastEvent' \in ResetEvents
                => (correctCount' = 0 /\ incorrectCount' = 0)
         ]_vars

\* C6 witness: both counts at the cap, kept across a move back.
ScoreMonotonicWitness ==
    /\ lastEvent = "previous"
    /\ correctCount = MaxCount
    /\ incorrectCount = MaxCount

\* C7: restart sets cursor 0, front showing, both counts 0 and leaves the
\* order exactly as it was (a shuffled order stays shuffled).
RestartKeepsOrder ==
    [][ lastEvent' = "restart" =>
            /\ currentIndex' = 0
            /\ isFlipped' = FALSE
            /\ correctCount' = 0
            /\ incorrectCount' = 0
            /\ studyCards' = studyCards ]_vars

\* C7 witness: a restart in a session whose order differs from the store order.
RestartWitness ==
    /\ lastEvent = "restart"
    /\ Len(cards) = MaxCards
    /\ studyCards # cards

\* C8: shuffle replaces the order by a permutation of its current elements and
\* sets cursor 0, front showing, both counts 0.
ShuffleResets ==
    [][ lastEvent' = "shuffle" =>
            /\ SameMultiset(studyCards', studyCards)
            /\ studyCards' \in Orderings(studyCards)
            /\ currentIndex' = 0
            /\ isFlipped' = FALSE
            /\ correctCount' = 0
            /\ incorrectCount' = 0 ]_vars

\* C8 witness: a shuffle of a full deck that produced another order.
ShuffleWitness ==
    /\ lastEvent = "shuffle"
    /\ Len(cards) = MaxCards
    /\ studyCards # cards
    /\ studyCards[1] = cards[MaxCards]

\* C9: for every order a shuffle can start from, the loop's n! sequences of
\* choices of j map one-to-one onto the n! orderings of the n cards: every
\* ordering is an outcome, and of exactly one choice sequence.
ShuffleBijection ==
    LET n == Len(studyCards)
        outcomes == { FisherYates(studyCards, js) : js \in ChoiceSeqs(n) }
    IN  /\ Cardinality(ChoiceSeqs(n)) = Factorial(n)
        /\ outcomes = Orderings(studyCards)
        /\ Cardinality(outcomes) = Cardinality(ChoiceSeqs(n))

\* C9 witness: a deck of four cards that a shuffle has put in reverse order.
ShuffleBijectionWitness ==
    /\ lastEvent = "shuffle"
    /\ Len(studyCards) = 4
    /\ \A i \in 1..4 : studyCards[i] = cards[5 - i]

\* A step that delivers event e (a re-render or an effect run delivers none).
Delivers(e) ==
    /\ lastEvent' = e
    /\ (lastEvent # e \/ State' # State)

EmptySessionInert ==
    Len(cards) = 0 =>
        /\ EmptyView
        /\ ~RendersCurrentCard
        /\ studyCards = << >>
        /\ currentIndex = 0
        /\ ~SummaryShown(State)
        /\ ~SummaryShown(render)
        /\ handleKeyDown(keyClosure, State, "ArrowLeft") = State
        /\ handleKeyDown(keyClosure, State, "ArrowRight") = State
        /\ handleNext(render, State) = State
        /\ handlePrevious(render, State) = State

\* C11 witness: an empty session in which Space and then ArrowLeft were pressed.
EmptySessionWitness ==
    /\ Len(cards) = 0
    /\ lastEvent = "ArrowLeft"
    /\ isFlipped

\* C12: completion (last card, back showing) is not absorbing: in a complete
\* state flip and previous have their normal effect, the session leaves the
\* complete state and a further flip enters it again; in a one-card deck the
\* first flip completes the session.
CompletionNotAbsorbing ==
    /\ (~EmptyView /\ SummaryShown(State)) =>
          LET f == handleFlip(render, State)
              p == handlePrevious(render, State)
          IN  /\ f = [State EXCEPT !.isFlipped = FALSE]
              /\ ~SummaryShown(f)
              /\ SummaryShown(handleFlip(f, f))
              /\ currentIndex > 0 =>
                    /\ ~PreviousDisabled(render)
                    /\ p = [State EXCEPT !.currentIndex = currentIndex - 1,
                                         !.isFlipped = FALSE]
                    /\ ~SummaryShown(p)
              /\ currentIndex = 0 => p = State
    /\ (Len(cards) = 1 /\ lastEvent = "mount") =>
          SummaryShown(handleFlip(render, State))

\* C12 witness: a full deck with both counts at the cap, so marks were given in
\* the complete state, and a flip has just completed the session again.
CompletionWitness ==
    /\ Len(studyCards) = MaxCards
    /\ SummaryShown(State)
    /\ lastEvent = "flip"
    /\ correctCount = MaxCount
    /\ incorrectCount = MaxCount

\* C13: flip negates the face and changes nothing else, so two flips in a row
\* restore the state, for the card click / Flip Card button and the Space key.
FlipTogglesOnly ==
    LET t == [State EXCEPT !.isFlipped = ~isFlipped]
    IN  /\ handleKeyDown(keyClosure, State, "Space") = t
        /\ handleKeyDown(EffectDeps(t), t, "Space") = State
        /\ ~EmptyView =>
              /\ handleFlip(render, State) = t
              /\ handleFlip(t, t) = State

\* C13 witness: a flip that turned a card back to its front, after scoring.
FlipWitness ==
    /\ lastEvent = "flip"
    /\ ~isFlipped
    /\ currentIndex > 0
    /\ correctCount > 0

\* C14: every mark is taken from a state whose back is showing, and while the
\* front is showing the counts change only by being reset to 0.
MarksOnlyWhenFlipped ==
    [][ /\ lastEvent' \in ScoreEvents => isFlipped
        /\ (~isFlipped /\ (correctCount' # correctCount
                             \/ incorrectCount' # incorrectCount))
              => (correctCount' = 0 /\ incorrectCount' = 0) ]_vars

\* C14 witness: the first mark of a session, which moved on to the second card.
MarkWitness ==
    /\ lastEvent = "markIncorrect"
    /\ incorrectCount = 1
    /\ correctCount = 0
    /\ currentIndex = 1

\* C15: a newly constructed session holds the given cards in the given order,
\* cursor 0, front showing, both counts 0.
NewSession ==
    lastEvent = "mount" =>
        /\ studyCards = cards
        /\ currentIndex = 0
        /\ isFlipped = FALSE
        /\ correctCount = 0
        /\ incorrectCount = 0
        /\ render = State

\* C15 witness: a session just built from a full deck that is not in id order.
NewSessionWitness ==
    /\ lastEvent = "mount"
    /\ Len(cards) = MaxCards
    /\ cards[1] > cards[2]

-----------------------------------------------------------------------------
\* Vocabulary of the store properties.

\* The ids of the decks of user u, and the cards outside those decks.
OwnDeckIds(db, u) == { d.id : d \in { x \in db.decksTable : x.userId = u } }
OwnCards(db, u) == { c \in db.cardsTable : c.deckId \in OwnDeckIds(db, u) }
ForeignCards(db, u) == db.cardsTable \ OwnCards(db, u)

\* The database with the rows of every user but u taken out.
OwnView(db, u) ==
    [db EXCEPT !.decksTable = { d \in @ : d.userId = u },
               !.cardsTable = OwnCards(db, u)]

\* What the caller of a server action gets to see.
Answer(r) == [error |-> r.error, result |-> r.result, revalidated |-> r.revalidated]

\* Column values handed to the query functions directly.
ColumnInputs == {Undefined, 1, 2}
\* Field lengths on both sides of every schema limit.
NameLengths == {0, 1, MaxNameLength, MaxNameLength + 1}
DescriptionLengths == {Undefined, 0, MaxDescriptionLength, MaxDescriptionLength + 1}
TextLengths == {0, 1, 2}

\* C16: a card read, insert, update or delete by a user with a deck id that
\* user does not own gives null (the empty list for getDeckCards) and leaves
\* the store unchanged; with any deck id, a card outside the caller's decks is
\* never returned, changed or deleted.
CardOwnership ==
    \A u \in Users, d \in DeckIdInputs :
        LET db == DB
            foreign == ForeignCards(db, u)
            notOwned == d \notin OwnDeckIds(db, u)
            Spared(q) ==
                /\ notOwned => (q.result = Null /\ q.db = db)
                /\ q.result \notin foreign
                /\ ForeignCards(q.db, u) = foreign
                /\ q.db.decksTable = db.decksTable
        IN  /\ notOwned => getDeckCards(db, d, u) = {}
            /\ getDeckCards(db, d, u) \cap foreign = {}
            /\ \A f \in ColumnInputs, b \in ColumnInputs :
                  Spared(insertCard(db, [deckId |-> d, front |-> f, back |-> b], u))
            /\ \A c \in CardIdInputs :
                  /\ notOwned => getCardById(db, c, d, u) = Null
                  /\ getCardById(db, c, d, u) \notin foreign
                  /\ Spared(deleteCardById(db, c, d, u))
                  /\ \A f \in ColumnInputs, b \in ColumnInputs :
                        Spared(updateCardById(db, c, d, u, [front |-> f, back |-> b]))

\* C16 witness: a card update or delete was refused while the caller owns a deck and a
\* card of another user's deck exists, which the caller's own deck id does
\* not open.
CardOwnershipWitness ==
    /\ outcome = "Card not found or unauthorized"
    /\ \E u \in Users : \E d \in OwnDeckIds(DB, u), c \in ForeignCards(DB, u) :
          updateCardById(DB, c.id, d, u, [front |-> 2, back |-> 2]).result = Null

\* C17: getUserDecks returns exactly the caller's decks, getDeckById a deck
\* only to its owner, and updateDeckById / deleteDeckById by anyone else
\* return null and leave every deck and card as it was.
DeckOwnership ==
    \A u \in Users, d \in DeckIdInputs, n \in ColumnInputs, ds \in ColumnInputs :
        LET db == DB
            got == getDeckById(db, d, u)
            upd == updateDeckById(db, d, u, [name |-> n, description |-> ds])
            del == deleteDeckById(db, d, u)
        IN  /\ getUserDecks(db, u) \subseteq db.decksTable
            /\ \A x \in db.decksTable : x \in getUserDecks(db, u) <=> x.userId = u
            /\ got # Null <=> d \in OwnDeckIds(db, u)
            /\ got # Null => (got \in db.decksTable /\ got.id = d /\ got.userId = u)
            /\ d \notin OwnDeckIds(db, u) =>
                  /\ upd.result = Null /\ upd.db = db
                  /\ del.result = Null /\ del.db = db

\* C17 witness: a call was refused with "Deck not found or unauthorized"
\* while each user has a deck and one of the decks holds a card.
DeckOwnershipWitness ==
    /\ outcome = "Deck not found or unauthorized"
    /\ \A u \in Users : getUserDecks(DB, u) # {}
    /\ cardsTable # {}

\* C18: for an id the caller does not own, every action and page answers the
\* same whether the entity exists or not: the answer on the store equals the
\* answer on the store with all other users' rows taken out.
NoExistenceOracle ==
    \A u \in Users, d \in DeckIdInputs :
        LET db == DB
            own == OwnView(db, u)
            notOwned == d \notin OwnDeckIds(db, u)
            ownCardIds == { x.id : x \in OwnCards(db, u) }
            Same(r1, r2) == Answer(r1) = Answer(r2) /\ OwnView(r1.db, u) = OwnView(r2.db, u)
        IN  /\ notOwned =>
                  /\ \A n \in NameLengths, ds \in DescriptionLengths :
                        Same(updateDeck(db, u, [id |-> d, name |-> n, description |-> ds]),
                             updateDeck(own, u, [id |-> d, name |-> n, description |-> ds]))
                  /\ Same(deleteDeck(db, u, [id |-> d]), deleteDeck(own, u, [id |-> d]))
                  /\ \A f \in TextLengths, b \in TextLengths :
                        Same(createCard(db, u, [deckId |-> d, front |-> f, back |-> b]),
                             createCard(own, u, [deckId |-> d, front |-> f, back |-> b]))
                  /\ StudyPage(db, u, d) = StudyPage(own, u, d)
                  /\ getDeckById(db, d, u) = getDeckById(own, d, u)
                  /\ getDeckCards(db, d, u) = getDeckCards(own, d, u)
            /\ \A c \in CardIdInputs :
                  (notOwned \/ c \notin ownCardIds) =>
                      /\ \A f \in TextLengths, b \in TextLengths :
                            Same(updateCard(db, u, [id |-> c, deckId |-> d, front |-> f, back |-> b]),
                                 updateCard(own, u, [id |-> c, deckId |-> d, front |-> f, back |-> b]))
                      /\ Same(deleteCard(db, u, [id |-> c, deckId |-> d]),
                              deleteCard(own, u, [id |-> c, deckId |-> d]))
                      /\ getCardById(db, c, d, u) = getCardById(own, c, d, u)

\* C18 witness: the study page answered notFound while every deck id handed
\* out names a deck, each user owns one of them and a card exists.
NoExistenceOracleWitness ==
    /\ outcome = "notFound"
    /\ deckSerial = MaxDeckIds
    /\ \A d \in 1..MaxDeckIds : \E x \in decksTable : x.id = d
    /\ \A u \in Users : getUserDecks(DB, u) # {}
    /\ cardsTable # {}

\* C19: called without a signed-in user, each of the six server actions
\* throws "Unauthorized" whatever the input (valid or not), having run no
\* query, written nothing and revalidated nothing.
UnauthorizedFirst ==
    LET refused == Thrown(DB, "Unauthorized", 0)
    IN  \A d \in DeckIdInputs :
            /\ deleteDeck(DB, NoUser, [id |-> d]) = refused
            /\ \A n \in NameLengths, ds \in DescriptionLengths :
                  /\ createDeck(DB, NoUser, [name |-> n, description |-> ds]) = refused
                  /\ updateDeck(DB, NoUser, [id |-> d, name |-> n, description |-> ds]) = refused
            /\ \A f \in TextLengths, b \in TextLengths :
                  /\ createCard(DB, NoUser, [deckId |-> d, front |-> f, back |-> b]) = refused
                  /\ \A c \in CardIdInputs :
                        updateCard(DB, NoUser, [id |-> c, deckId |-> d, front |-> f, back |-> b]) = refused
            /\ \A c \in CardIdInputs :
                  deleteCard(DB, NoUser, [id |-> c, deckId |-> d]) = refused

\* C19 witness: a server action was answered "Unauthorized" on a store that
\* holds a card.
UnauthorizedWitness ==
    /\ outcome = "Unauthorized"
    /\ cardsTable # {}

\* C20: input that violates the schema (name of length 0 or above 100,
\* description above 500, empty front or back) is rejected with nothing
\* queried, written or revalidated, so every stored deck has a name of length
\* 1..100 and every stored card a non-empty front and back.
SchemaFirst ==
    /\ \A d \in decksTable : d.name >= 1 /\ d.name <= 100 /\ d.description <= 500
    /\ \A c \in cardsTable : c.front >= 1 /\ c.back >= 1
    /\ \A u \in Users, d \in DeckIdInputs :
        LET rejected == Thrown(DB, "ZodError", 0)
        IN  /\ \A n \in NameLengths, ds \in DescriptionLengths :
                  (n = 0 \/ n > 100 \/ ds > 500) =>
                      /\ createDeck(DB, u, [name |-> n, description |-> ds]) = rejected
                      /\ updateDeck(DB, u, [id |-> d, name |-> n, description |-> ds]) = rejected
            /\ \A f \in TextLengths, b \in TextLengths :
                  (f = 0 \/ b = 0) =>
                      /\ createCard(DB, u, [deckId |-> d, front |-> f, back |-> b]) = rejected
                      /\ \A c \in CardIdInputs :
                            updateCard(DB, u, [id |-> c, deckId |-> d, front |-> f, back |-> b]) = rejected

\* C20 witness: a server action was rejected by the schema on a store holding
\* a card and a deck whose name is exactly at the limit.
SchemaWitness ==
    /\ outcome = "ZodError"
    /\ cardsTable # {}
    /\ \E d \in decksTable : d.name = 100

-----------------------------------------------------------------------------
\* The events that move the cursor or turn the card.
MoveEvents == {"next", "previous", "flip", "Space", "ArrowLeft", "ArrowRight"}

\* C25: a session built from an empty card list is terminal: no key press and
\* no click changes any of the five state cells, the Space key included.
EmptySessionTerminal ==
    [][Len(cards) = 0 => State' = State]_vars

\* C26: next, previous and flip leave the order and both counts unchanged,
\* markCorrect leaves the order and incorrectCount unchanged, markIncorrect the
\* order and correctCount; no session event changes the cards handed over or
\* any row of the store.
SessionFrame ==
    [][ /\ lastEvent' \in MoveEvents =>
              /\ studyCards' = studyCards
              /\ correctCount' = correctCount
              /\ incorrectCount' = incorrectCount
        /\ lastEvent' = "markCorrect" =>
              (studyCards' = studyCards /\ incorrectCount' = incorrectCount)
        /\ lastEvent' = "markIncorrect" =>
              (studyCards' = studyCards /\ correctCount' = correctCount)
        /\ cards' = cards
        /\ UNCHANGED <<decksTable, cardsTable, deckSerial, cardSerial>> ]_vars

\* C26 witness: the second card was marked, the session moved back to the
\* first card and both counts are still there.
SessionFrameWitness ==
    /\ lastEvent = "previous"
    /\ currentIndex = 0
    /\ correctCount = 1
    /\ incorrectCount = 1

\* C27: in a non-empty session Space, ArrowLeft and ArrowRight yield the state
\* handleFlip, handlePrevious and handleNext yield, and the Previous and
\* Next / Skip buttons are disabled exactly when their handler would change
\* nothing.
KeysMatchButtons ==
    ~EmptyView =>
        /\ handleKeyDown(keyClosure, State, "Space") = handleFlip(render, State)
        /\ handleKeyDown(keyClosure, State, "ArrowLeft") = handlePrevious(render, State)
        /\ handleKeyDown(keyClosure, State, "ArrowRight") = handleNext(render, State)
        /\ PreviousDisabled(render) <=> currentIndex = 0
        /\ NextDisabled(render) <=> currentIndex = Len(studyCards) - 1
        /\ PreviousDisabled(render) <=> handlePrevious(render, State) = State
        /\ NextDisabled(render) <=> handleNext(render, State) = State

\* C27 witness: ArrowRight pressed on the last card of a full deck, where the
\* Next button is disabled, after ArrowLeft had been refused on the first.
KeysMatchButtonsWitness ==
    /\ Len(studyCards) = MaxCards
    /\ lastEvent = "ArrowRight"
    /\ currentIndex = Len(studyCards) - 1
    /\ isFlipped = FALSE
    /\ correctCount = MaxCount

\* One event of the user who flips when the front shows and marks when the
\* back shows; nothing is left to do once the session is complete.
StrategyStep(s, correct) ==
    IF SummaryShown(s) THEN s
    ELSE IF ~s.isFlipped THEN handleFlip(s, s)
    ELSE IF correct THEN handleCorrect(s, s)
    ELSE handleIncorrect(s, s)

RECURSIVE StrategyRun(_, _, _)
StrategyRun(s, correct, k) ==
    IF k = 0 THEN s ELSE StrategyRun(StrategyStep(s, correct), correct, k - 1)

\* C28: from every reachable state of a non-empty session the flip-then-mark
\* user reaches the complete state within 2 * len events, and no state is a
\* dead end: the card can always be turned, which changes the state.
CompletionReachable ==
    ~EmptyView =>
        /\ \A correct \in BOOLEAN :
              SummaryShown(StrategyRun(State, correct, 2 * Len(studyCards)))
        /\ handleFlip(render, State) # State
        /\ ENABLED ClickCard(TRUE)

\* C28 witness: a full deck, first card, back showing, reached by going back:
\* the flip-then-mark user is as far from completion as the back allows.
CompletionReachableWitness ==
    /\ Len(studyCards) = MaxCards
    /\ currentIndex = 0
    /\ isFlipped
    /\ lastEvent = "flip"
    /\ incorrectCount = MaxCount
    /\ ~SummaryShown(StrategyRun(State, TRUE, 2 * Len(studyCards) - 4))

-----------------------------------------------------------------------------
\* C21: after every successful deck or card create, update or delete the
\* revalidated paths contain every page that renders the changed entity: the
\* dashboard for a new deck; the dashboard, the deck page and the study page
\* for a changed or deleted deck; the deck page and the study page for a
\* changed card.
RevalidatesAffectedViews ==
    \A u \in Users, d \in DeckIdInputs :
        LET Covered(r, views) == r.error = "none" => views \subseteq r.revalidated
        IN  /\ Covered(createDeck(DB, u, [name |-> 1, description |-> Undefined]),
                       {DashboardView})
            /\ Covered(updateDeck(DB, u, [id |-> d, name |-> 1, description |-> Undefined]),
                       ViewsOfDeck(d))
            /\ Covered(deleteDeck(DB, u, [id |-> d]), ViewsOfDeck(d))
            /\ Covered(createCard(DB, u, [deckId |-> d, front |-> 1, back |-> 1]),
                       ViewsOfCards(d))
            /\ \A c \in CardIdInputs :
                  /\ Covered(updateCard(DB, u, [id |-> c, deckId |-> d, front |-> 1, back |-> 1]),
                             ViewsOfCards(d))
                  /\ Covered(deleteCard(DB, u, [id |-> c, deckId |-> d]), ViewsOfCards(d))

\* Rows that are in both databases kept their owner / their deck.
OwnersKept(db1, db2) ==
    /\ \A d \in db1.decksTable, e \in db2.decksTable : d.id = e.id => d.userId = e.userId
    /\ \A c \in db1.cardsTable, e \in db2.cardsTable : c.id = e.id => c.deckId = e.deckId

\* C29: a deck made by createDeck belongs to the caller whatever the input
\* holds (a userId field included); no action changes the owner of a deck or
\* the deck of a card; updateDeck changes at most name and description of the
\* one deck, updateCard at most front and back of the one card.
OwnershipFixed ==
    \A u \in Users, d \in DeckIdInputs :
        LET db == DB
        IN  /\ \A n \in NameLengths, ds \in DescriptionLengths, v \in Users :
                  LET r == createDeck(db, u, [name |-> n, description |-> ds, userId |-> v])
                      w == updateDeck(db, u, [id |-> d, name |-> n, description |-> ds, userId |-> v])
                  IN  /\ r.error = "none" =>
                            /\ r.result.userId = u
                            /\ r.db.decksTable = db.decksTable \cup {r.result}
                            /\ r.db.cardsTable = db.cardsTable
                      /\ OwnersKept(db, w.db)
                      /\ w.db.cardsTable = db.cardsTable
                      /\ { x.id : x \in w.db.decksTable } = { x.id : x \in db.decksTable }
                      /\ \A x \in db.decksTable, y \in w.db.decksTable :
                            x.id = y.id =>
                                /\ x.id # d => y = x
                                /\ [y EXCEPT !.name = x.name, !.description = x.description] = x
            /\ OwnersKept(db, deleteDeck(db, u, [id |-> d]).db)
            /\ \A f \in TextLengths, b \in TextLengths :
                  /\ OwnersKept(db, createCard(db, u, [deckId |-> d, front |-> f, back |-> b]).db)
                  /\ \A c \in CardIdInputs, e \in DeckIdInputs :
                        LET w == updateCard(db, u, [id |-> c, deckId |-> d, front |-> f,
                                                    back |-> b, newDeckId |-> e])
                        IN  /\ OwnersKept(db, w.db)
                            /\ w.db.decksTable = db.decksTable
                            /\ { x.id : x \in w.db.cardsTable } = { x.id : x \in db.cardsTable }
                            /\ \A x \in db.cardsTable, y \in w.db.cardsTable :
                                  x.id = y.id =>
                                      /\ x.id # c => y = x
                                      /\ [y EXCEPT !.front = x.front, !.back = x.back] = x
            /\ \A c \in CardIdInputs :
                  OwnersKept(db, deleteCard(db, u, [id |-> c, deckId |-> d]).db)

\* C29 witness: an action went through on a store where the second user made
\* the first deck and the first user the second deck, which holds a card.
OwnershipFixedWitness ==
    /\ outcome = "none"
    /\ \E x \in decksTable : x.id = 1 /\ x.userId = "user_2"
    /\ \E x \in decksTable : x.id = 2 /\ x.userId = "user_1"
    /\ \E c \in cardsTable : c.deckId = 2

\* C22: a user without the unlimited_decks feature never owns more than 3
\* decks, whatever createDeck calls are made from whatever dashboard tabs.
FreeDeckLimitKept ==
    \A u \in Users \ ProUsers :
        Cardinality(getUserDecks(DB, u)) <= FreeDeckLimit

RejectionKeepsForm ==
    [][dialog.kind \in FormKinds /\ dialog'.last \in {"resolved", "rejected"}
       /\ dialog'.sent # dialog.sent
          => /\ dialog'.last = "rejected"
                => /\ dialog'.open = dialog.open
                   /\ dialog'.a = dialog.a
                   /\ dialog'.b = dialog.b
                   /\ outcome' # "none"
             /\ (dialog'.open # dialog.open \/ dialog'.a # dialog.a
                 \/ dialog'.b # dialog.b)
                => /\ dialog'.last = "resolved"
                   /\ outcome' = "none"]_vars

\* A rejected create left the dialog open with the too long name in it, and
\* a rejected update left its dialog open.
RejectionKeepsFormWitness ==
    /\ dialog.last = "rejected"
    /\ dialog.open
    /\ \/ dialog.kind = "CreateDeckButton" /\ dialog.a = MaxNameLength + 1
                                           /\ dialog.error = "ZodError"
       \/ dialog.kind = "EditCard" /\ outcome = "Card not found or unauthorized"

\* C30: while the action of a dialog is pending its submit or confirm button
\* is disabled, so a dialog has at most one action in flight, and a second
\* click creates no second deck or card.
OneActionInFlight ==
    /\ [](/\ Len(dialog.sent) <= 1
          /\ dialog.isPending <=> dialog.sent # << >>
          /\ dialog.isPending => SubmitDisabled(dialog) /\ ~ENABLED SubmitDialog)
    /\ [][/\ dialog'.last = "submit" /\ dialog' # dialog
                => dialog.sent = << >>
          /\ dialog'.last = "resolved" /\ dialog'.sent # dialog.sent
                => /\ dialog'.sent = << >>
                   /\ Cardinality(decksTable') <= Cardinality(decksTable) + 1
                   /\ Cardinality(cardsTable') <= Cardinality(cardsTable) + 1]_vars

\* A create is pending in an open dialog, the second click finds the button
\* disabled.
OneActionInFlightWitness ==
    /\ dialog.kind \in {"CreateDeckButton", "AddCardButton"}
    /\ dialog.open
    /\ dialog.isPending
    /\ dialog.last = "submit"


====
